---- MODULE Spec2Model ----
(***************************************************************************)
(* A model of flow/envs/straightroad_env.py: the I210SingleEnv adapter     *)
(* (vehicle selection, observation, action dispatch, reward) and the       *)
(* SingleStraightRoad wave-termination check, over a simulation kernel     *)
(* whose vehicle table (ids, positions, speeds, leaders) is the state.     *)
(*                                                                         *)
(* Numbers.  Speeds, positions and accelerations are integers (multiples   *)
(* of a unit); every division the code makes is kept as an exact fraction  *)
(* [n, d], and NaN is a value of its own, so that scaling, averaging and   *)
(* nan_to_num are computed and not assumed.  Python's 0-based index i is   *)
(* the model's index i + 1.                                                *)
(***************************************************************************)
EXTENDS Integers, Sequences, FiniteSets, TLC

\* ---------------------------------------------------------------- constants
MAX_LANES == 6
MAX_NUM_VEHS == 8
SPEED_SCALE == 50
HEADWAY_SCALE == 1000
\* ADDITIONAL_ENV_PARAMS defaults
WAVE_TERMINATION_HORIZON == 500
WAVE_TERMINATION_SPEED == 10

\* ------------------------------------------------------------------- bounds
\* controllable vehicle identifiers 1..MaxVehs (one more than MAX_NUM_VEHS)
MaxVehs == 9
\* background (human-driven) vehicle identifiers MaxVehs+1..MaxVehs+MaxHumans
MaxHumans == 1
\* positions are taken modulo RoadLen
RoadLen == 10
\* position layouts: x[v] = (a * v) % RoadLen for a in 1..MaxStride
MaxStride == 3
\* speeds are SpeedStep * (0..MaxSpeedIdx)
SpeedStep == 5
MaxSpeedIdx == 6
\* speed profiles: index (s0 + v * ds) with ds in 0..MaxSpeedStride
MaxSpeedStride == 1
\* target velocities are SpeedStep * (1..MaxTargetIdx)
MaxTargetIdx == 2
\* a leader further ahead than `sight` is not visible, sight in 0..MaxSight
MaxSight == 2
\* action vectors: rl_actions[i] = g * i for g in 1..MaxGain, and negated
MaxGain == 1
\* the episode's time horizon (env_params.horizon) of the base step
Horizon == 502

RlVehs == 1..MaxVehs
HumanVehs == (MaxVehs + 1)..(MaxVehs + MaxHumans)
AllVehs == RlVehs \cup HumanVehs

\* get_leader's two answers for "no leader": the empty string and None
EmptyId == 0
NoneId == -1

VARIABLES
    \* self.k.vehicle: the kernel's vehicle table
    rl_ids,            \* get_rl_ids(): live controllable vehicles, kernel order
    human_ids,         \* the other live vehicles; get_ids() is both
    x,                 \* get_x_by_id
    speed,             \* get_speed
    sight,             \* how far ahead the kernel sees a leader
    missing,           \* what get_leader returns when it sees none
    \* env_params.additional_params and the env's own fields
    lead_obs,
    max_lanes,
    target_velocity,
    terminate_on_wave,
    time_counter,
    \* SingleStraightRoad.step: where a call stands, and its argument
    pc,
    step_in,
    \* what the last call of each method returned and asked of the kernel
    state_out,
    apply_out,
    reward_out,
    step_out

kernel == <<rl_ids, human_ids, x, speed, sight, missing>>
config == <<lead_obs, max_lanes, target_velocity, terminate_on_wave>>
outputs == <<state_out, apply_out, reward_out, step_out>>
env == <<time_counter, pc, step_in>>
vars == <<rl_ids, human_ids, x, speed, sight, missing, lead_obs, max_lanes,
          target_velocity, terminate_on_wave, time_counter, pc, step_in,
          state_out, apply_out, reward_out, step_out>>

\* ------------------------------------------------------------------ numbers
Rat(n, d) == [nan |-> FALSE, n |-> n, d |-> d]
NaN == [nan |-> TRUE, n |-> 0, d |-> 1]
Zero == Rat(0, 1)

\* r / c for a positive integer c
RatDiv(r, c) == IF r.nan THEN NaN ELSE Rat(r.n, r.d * c)
RatEq(a, b) == ~a.nan /\ ~b.nan /\ a.n * b.d = b.n * a.d
RatLt(a, b) == ~a.nan /\ ~b.nan /\ a.n * b.d < b.n * a.d
RatLe(a, b) == ~a.nan /\ ~b.nan /\ a.n * b.d <= b.n * a.d

Abs(n) == IF n < 0 THEN -n ELSE n

RECURSIVE SumSeq(_)
SumSeq(s) == IF s = <<>> THEN 0 ELSE s[1] + SumSeq(Tail(s))

\* np.mean of a list: NaN for the empty list
Mean(s) == IF Len(s) = 0 THEN NaN ELSE Rat(SumSeq(s), Len(s))

\* NaN passed through
nan_to_num_kept(r) == r

\* np.nan_to_num
nan_to_num(r) == IF r.nan THEN Zero ELSE r

\* ------------------------------------------------------------------- kernel
get_rl_ids == rl_ids
get_ids == human_ids \o rl_ids
get_x_by_id(v) == x[v]
get_speed(v) == speed[v]

Range(s) == {s[i] : i \in 1..Len(s)}

\* the vehicles the kernel sees ahead of v
Ahead(v) == {u \in Range(get_ids) : x[u] > x[v] /\ x[u] - x[v] <= sight}

get_leader(v) ==
    IF Ahead(v) = {} THEN missing
    ELSE CHOOSE u \in Ahead(v) :
            \A w \in Ahead(v) : x[u] < x[w] \/ (x[u] = x[w] /\ u <= w)

get_headway(v) == x[get_leader(v)] - x[v]

Layout(a) == [v \in AllVehs |-> (a * v) % RoadLen]
Layouts == {Layout(a) : a \in 1..MaxStride}

Profile(s0, ds) ==
    [v \in AllVehs |-> SpeedStep * ((s0 + v * ds) % (MaxSpeedIdx + 1))]
Profiles == {Profile(s0, ds) : s0 \in 0..MaxSpeedIdx, ds \in 0..MaxSpeedStride}

\* ---------------------------------------------------------- get_sorted_rl_ids
\* sorted(ids, key): stable, ascending
RECURSIVE InsertByKey(_, _)
InsertByKey(s, v) ==
    IF s = <<>> THEN <<v>>
    ELSE IF get_x_by_id(s[Len(s)]) <= get_x_by_id(v) THEN Append(s, v)
    ELSE Append(InsertByKey(SubSeq(s, 1, Len(s) - 1), v), s[Len(s)])

RECURSIVE SortedByX(_)
SortedByX(s) ==
    IF s = <<>> THEN <<>>
    ELSE InsertByKey(SortedByX(SubSeq(s, 1, Len(s) - 1)), s[Len(s)])

\* s[::-1]
Reversed(s) == [i \in 1..Len(s) |-> s[Len(s) + 1 - i]]

\* s[-n:]
LastN(s, n) == IF Len(s) <= n THEN s ELSE SubSeq(s, Len(s) - n + 1, Len(s))

get_sorted_rl_ids == LastN(Reversed(SortedByX(get_rl_ids)), MAX_NUM_VEHS)

\* ---------------------------------------------------------- observation_space
\* a shape that follows the live vehicle count
ObservationShapeLive ==
    IF lead_obs THEN 3 * Len(get_rl_ids)
    ELSE 3 * max_lanes + 3 * max_lanes + 2

ObservationShape ==
    IF lead_obs THEN 3 * MAX_NUM_VEHS
    ELSE 3 * max_lanes + 3 * max_lanes + 2

\* action_space: one acceleration per slot
ActionShape == 1 * MAX_NUM_VEHS

\* -------------------------------------------------------------------- get_state
LeaderMissing(lead_id) == lead_id \in {EmptyId, NoneId}

NoLeaderSpeed == SPEED_SCALE
\* zero padding in place of the sentinel
NoLeaderHeadwayZeroed == 0 * HEADWAY_SCALE

NoLeaderHeadway == HEADWAY_SCALE

LeadSpeed(rl_id) ==
    IF LeaderMissing(get_leader(rl_id)) THEN NoLeaderSpeed
    ELSE get_speed(get_leader(rl_id))

Headway(rl_id) ==
    IF LeaderMissing(get_leader(rl_id)) THEN NoLeaderHeadway
    ELSE get_headway(rl_id)

\* the three entries written for one vehicle
VehicleObs(rl_id) ==
    << Rat(get_speed(rl_id), SPEED_SCALE),
       Rat(Headway(rl_id), HEADWAY_SCALE),
       Rat(LeadSpeed(rl_id), SPEED_SCALE) >>

\* veh_info after the loop: slot i of ids at entries 3i..3i+2, zeros elsewhere
VehInfo(ids) ==
    [j \in 1..ObservationShape |->
        IF (j - 1) \div 3 < Len(ids)
        THEN VehicleObs(ids[((j - 1) \div 3) + 1])[((j - 1) % 3) + 1]
        ELSE Zero]

\* the kernel queries get_state makes
StateQueries(ids) ==
    UNION { {<<"get_speed", v>>, <<"get_leader", v>>}
            \cup (IF LeaderMissing(get_leader(v)) THEN {}
                  ELSE {<<"get_speed", get_leader(v)>>, <<"get_headway", v>>})
            : v \in Range(ids) }

\* ------------------------------------------------------------ _apply_rl_actions
NoneAction == [none |-> TRUE, v |-> <<>>]
Action(v) == [none |-> FALSE, v |-> v]

ActionVecs ==
    {Action([i \in 1..ActionShape |-> g * i]) : g \in 1..MaxGain}
    \cup {Action([i \in 1..ActionShape |-> -(g * i)]) : g \in 1..MaxGain}
Actions == {NoneAction} \cup ActionVecs

\* the action vector read from its other end
AccelsBackwards(ids, rl_actions) ==
    [i \in 1..Len(ids) |-> rl_actions.v[ActionShape + 1 - i]]

\* accels: rl_actions[i] for each i, rl_id of enumerate(ids)
Accels(ids, rl_actions) == [i \in 1..Len(ids) |-> rl_actions.v[i]]

\* the indices of rl_actions the loop reads
ActionReads(ids) == 1..Len(ids)

\* None taken for an all-zero action
AccelCallsNoneAsZero(ids, rl_actions) ==
    << [veh_ids |-> ids,
        acc |-> IF rl_actions.none THEN [i \in 1..Len(ids) |-> 0]
                ELSE [i \in 1..Len(ids) |-> rl_actions.v[i]]] >>

\* the calls of k.vehicle.apply_acceleration the method makes
AccelCalls(ids, rl_actions) ==
    IF rl_actions.none THEN <<>>
    ELSE << [veh_ids |-> ids, acc |-> Accels(ids, rl_actions)] >>

\* --------------------------------------------------------------- compute_reward
\* the absolute value forgotten
RewardTermSigned(s, des_speed) ==
    (des_speed - (s - des_speed)) * (des_speed - (s - des_speed))

\* (des_speed - np.abs(speed - des_speed))**2
RewardTerm(s, des_speed) ==
    (des_speed - Abs(s - des_speed)) * (des_speed - Abs(s - des_speed))

\* normalised by des_speed, not by its square
RewardOfSpeedsUnsquared(speeds, des_speed) ==
    RatDiv(nan_to_num(Mean([i \in 1..Len(speeds) |->
                               RewardTerm(speeds[i], des_speed)])),
           des_speed)

\* nan_to_num(mean of the terms) / des_speed**2, for a list of speeds
RewardOfSpeeds(speeds, des_speed) ==
    RatDiv(nan_to_num(Mean([i \in 1..Len(speeds) |->
                               RewardTerm(speeds[i], des_speed)])),
           des_speed * des_speed)

\* k.vehicle.get_speed of a list
SpeedsOf(ids) == [i \in 1..Len(ids) |-> get_speed(ids[i])]

RewardValue(ids, des_speed) == RewardOfSpeeds(SpeedsOf(ids), des_speed)

EmptyReward == [empty |-> TRUE, value |-> Zero]

\* the average taken over every live vehicle
ComputeRewardResultAllLive(rl_actions) ==
    IF rl_actions.none THEN EmptyReward
    ELSE [empty |-> FALSE,
          value |-> RewardValue(get_rl_ids, target_velocity)]

ComputeRewardResult(rl_actions) ==
    IF rl_actions.none THEN EmptyReward
    ELSE [empty |-> FALSE,
          value |-> RewardValue(get_sorted_rl_ids, target_velocity)]

RewardQueries(rl_actions) ==
    IF rl_actions.none THEN {}
    ELSE {<<"get_speed", v>> : v \in Range(get_sorted_rl_ids)}

\* ------------------------------------------------------------------ the calls
\* The base class's step calls the methods in this order on one vehicle table:
\* get_state and compute_reward when a step ends, _apply_rl_actions when the
\* next one starts, and only then does the simulator advance.
NoState == [called |-> FALSE, veh_info |-> <<>>, ids |-> <<>>, queries |-> {}]
NotApplied == [called |-> FALSE, rl_actions |-> NoneAction, calls |-> <<>>,
               reads |-> {}]
NoReward == [called |-> FALSE, rl_actions |-> NoneAction, result |-> EmptyReward,
             queries |-> {}]
NoStep == [called |-> FALSE, obs |-> <<>>, rew |-> EmptyReward, done |-> FALSE,
           base_done |-> FALSE]

GetState ==
    /\ ~state_out.called
    /\ ~step_out.called
    /\ state_out' = [called |-> TRUE,
                     veh_info |-> VehInfo(get_sorted_rl_ids),
                     ids |-> get_sorted_rl_ids,
                     queries |-> StateQueries(get_sorted_rl_ids)]
    /\ UNCHANGED <<kernel, config, env, apply_out, reward_out, step_out>>

ApplyRlActions ==
    /\ reward_out.called
    /\ ~apply_out.called
    /\ \E rl_actions \in Actions :
         apply_out' = [called |-> TRUE,
                       rl_actions |-> rl_actions,
                       calls |-> AccelCalls(get_sorted_rl_ids, rl_actions),
                       reads |-> IF rl_actions.none THEN {}
                                 ELSE ActionReads(get_sorted_rl_ids)]
    /\ UNCHANGED <<kernel, config, env, state_out, reward_out, step_out>>

ComputeReward ==
    /\ state_out.called
    /\ ~reward_out.called
    /\ \E rl_actions \in Actions :
         reward_out' = [called |-> TRUE,
                        rl_actions |-> rl_actions,
                        result |-> ComputeRewardResult(rl_actions),
                        queries |-> RewardQueries(rl_actions)]
    /\ UNCHANGED <<kernel, config, env, state_out, apply_out, step_out>>

\* ------------------------------------------------- the simulator's own moves
\* Each is one way a simulation step changes the vehicle table; what the
\* methods returned about the previous table is dropped with it.
Cleared ==
    /\ state_out' = NoState
    /\ apply_out' = NotApplied
    /\ reward_out' = NoReward
    /\ step_out' = NoStep

\* vehicles are numbered in the order they enter
NextRlId == IF rl_ids = <<>> THEN 1 ELSE rl_ids[Len(rl_ids)] + 1

EnterRl ==
    /\ NextRlId <= MaxVehs
    /\ rl_ids' = Append(rl_ids, NextRlId)
    /\ UNCHANGED <<human_ids, x, speed, sight, missing>>

LeaveRl ==
    /\ Len(rl_ids) > 1
    /\ rl_ids' = Tail(rl_ids)
    /\ UNCHANGED <<human_ids, x, speed, sight, missing>>

LastLeaveRl ==
    /\ Len(rl_ids) = 1
    /\ rl_ids' = <<>>
    /\ UNCHANGED <<human_ids, x, speed, sight, missing>>

MoveVehicles ==
    /\ \E l \in Layouts : l # x /\ x' = l
    /\ UNCHANGED <<rl_ids, human_ids, speed, sight, missing>>

ChangeSpeeds ==
    /\ \E p \in Profiles : p # speed /\ speed' = p
    /\ UNCHANGED <<rl_ids, human_ids, x, sight, missing>>

VehicleEnters == EnterRl /\ Cleared /\ UNCHANGED <<config, env>>
VehicleLeaves == (LeaveRl \/ LastLeaveRl) /\ Cleared /\ UNCHANGED <<config, env>>
VehiclesMove == MoveVehicles /\ Cleared /\ UNCHANGED <<config, env>>
SpeedsChange == ChangeSpeeds /\ Cleared /\ UNCHANGED <<config, env>>

\* ------------------------------------------------ selection, observation, action
Init ==
    /\ rl_ids = <<>>
    /\ human_ids = <<>>
    /\ x = Layout(1)
    /\ speed = Profile(1, 1)
    /\ sight \in 0..MaxSight
    /\ missing \in {EmptyId, NoneId}
    /\ lead_obs \in BOOLEAN
    /\ max_lanes = MAX_LANES
    /\ target_velocity = SpeedStep
    /\ terminate_on_wave = TRUE
    /\ time_counter = 0
    /\ pc = "idle"
    /\ step_in = NoneAction
    /\ state_out = NoState
    /\ apply_out = NotApplied
    /\ reward_out = NoReward
    /\ step_out = NoStep

Next ==
    \/ GetState
    \/ ApplyRlActions
    \/ ComputeReward
    \/ VehicleEnters
    \/ VehicleLeaves
    \/ VehiclesMove

Spec == Init /\ [][Next]_vars

\* --------------------------------------------------- SingleStraightRoad.step
NextHumanId ==
    IF human_ids = <<>> THEN MaxVehs + 1 ELSE human_ids[Len(human_ids)] + 1

EnterHuman ==
    /\ NextHumanId <= MaxVehs + MaxHumans
    /\ human_ids' = Append(human_ids, NextHumanId)
    /\ UNCHANGED <<rl_ids, x, speed, sight, missing>>

LeaveHuman ==
    /\ human_ids # <<>>
    /\ human_ids' = Tail(human_ids)
    /\ UNCHANGED <<rl_ids, x, speed, sight, missing>>

\* every vehicle gains one speed unit; one at the top speed stops
AccelerateAll ==
    /\ speed' = [v \in AllVehs |->
                    IF speed[v] = SpeedStep * MaxSpeedIdx THEN 0
                    ELSE speed[v] + SpeedStep]
    /\ UNCHANGED <<rl_ids, human_ids, x, sight, missing>>

\* k.simulation.simulation_step() and k.update() on the straight road
SimulationStep ==
    \/ EnterHuman
    \/ LeaveHuman
    \/ AccelerateAll
    \/ UNCHANGED kernel

\* the base class's termination: a collision, or the time horizon reached
BaseDone(crash) == crash \/ time_counter >= Horizon

\* np.nan_to_num(np.mean(get_speed(get_ids())))
MeanSpeed == nan_to_num(Mean(SpeedsOf(get_ids)))

\* the wave check with >= for the horizon
WaveTerminatesAtHorizon ==
    /\ terminate_on_wave
    /\ RatLt(MeanSpeed, Rat(WAVE_TERMINATION_SPEED, 1))
    /\ time_counter >= WAVE_TERMINATION_HORIZON
    /\ Len(get_ids) > 0

WaveTerminates ==
    /\ terminate_on_wave
    /\ RatLt(MeanSpeed, Rat(WAVE_TERMINATION_SPEED, 1))
    /\ time_counter > WAVE_TERMINATION_HORIZON
    /\ Len(get_ids) > 0

\* step is called: super().step(rl_actions) applies the action to the table
\* as it is, the simulator consumes it and advances, and the counter advances
Step ==
    /\ pc = "idle"
    /\ ~step_out.done
    /\ \E rl_actions \in Actions : step_in' = rl_actions
    /\ pc' = "in_step"
    /\ time_counter' = time_counter + 1
    /\ SimulationStep
    /\ state_out' = NoState
    /\ apply_out' = NotApplied
    /\ reward_out' = NoReward
    /\ step_out' = NoStep
    /\ UNCHANGED config

\* super().step returns the observation, the reward and the base done flag of
\* the new table (a collision takes two vehicles); step adds the wave check
StepReturn ==
    /\ pc = "in_step"
    /\ \E crash \in BOOLEAN :
        /\ crash => Len(get_ids) > 1
        /\ step_out' = [called |-> TRUE,
                        obs |-> VehInfo(get_sorted_rl_ids),
                        rew |-> ComputeRewardResult(step_in),
                        base_done |-> BaseDone(crash),
                        done |-> IF WaveTerminates THEN TRUE
                                 ELSE BaseDone(crash)]
    /\ pc' = "idle"
    /\ step_in' = NoneAction
    /\ UNCHANGED <<kernel, config, time_counter, state_out, apply_out,
                   reward_out>>

InitWave ==
    /\ rl_ids \in {<<>>, <<1>>}
    /\ human_ids = <<>>
    /\ x = Layout(1)
    /\ speed = Profile(0, 1)
    /\ sight = MaxSight
    /\ missing = EmptyId
    /\ lead_obs = TRUE
    /\ max_lanes = 1
    /\ target_velocity = 2 * SpeedStep
    /\ terminate_on_wave \in BOOLEAN
    /\ time_counter = 0
    /\ pc = "idle"
    /\ step_in = NoneAction
    /\ state_out = NoState
    /\ apply_out = NotApplied
    /\ reward_out = NoReward
    /\ step_out = NoStep

NextWave == Step \/ StepReturn

SpecWave == InitWave /\ [][NextWave]_vars

\* ------------------------------------------------------------------- reward
Targets == {SpeedStep * t : t \in 1..MaxTargetIdx}

InitReward ==
    /\ rl_ids = <<>>
    /\ human_ids = <<>>
    /\ x \in Layouts
    /\ speed = Profile(0, 0)
    /\ sight = 0
    /\ missing = EmptyId
    /\ lead_obs = TRUE
    /\ max_lanes = MAX_LANES
    /\ target_velocity \in Targets
    /\ terminate_on_wave = TRUE
    /\ time_counter = 0
    /\ pc = "idle"
    /\ step_in = NoneAction
    /\ state_out = NoState
    /\ apply_out = NotApplied
    /\ reward_out = NoReward
    /\ step_out = NoStep

NextReward ==
    \/ GetState
    \/ ComputeReward
    \/ VehicleEnters
    \/ VehicleLeaves
    \/ SpeedsChange

SpecReward == InitReward /\ [][NextReward]_vars

\* ---------------------------------------------------------------- properties
Min(a, b) == IF a < b THEN a ELSE b
One == Rat(1, 1)
DistinctPositions == \A u, v \in Range(rl_ids) : u # v => x[u] # x[v]
Live == Len(rl_ids)

\* C1: with distinct positions, the selection get_sorted_rl_ids hands to
\* get_state is the min(k, N) live vehicles furthest along the road, in
\* descending position order; a vehicle left out is behind every one kept.
C1_FrontmostSelected ==
    (state_out.called /\ DistinctPositions) =>
        LET ids == state_out.ids IN
        /\ Len(ids) = Min(Live, MAX_NUM_VEHS)
        /\ Range(ids) \subseteq Range(rl_ids)
        /\ \A i, j \in 1..Len(ids) : i < j => x[ids[i]] > x[ids[j]]
        /\ \A v \in Range(rl_ids) \ Range(ids) :
              \A u \in Range(ids) : x[v] < x[u]

\* C2: in lead-observation mode the observation has length 3 * N = 24 for
\* every live count, and every entry past the 3 * min(k, N) assigned ones is
\* exactly zero.
C2_FixedLengthZeroPadded ==
    (state_out.called /\ lead_obs) =>
        /\ Len(state_out.veh_info) = 3 * MAX_NUM_VEHS
        /\ Len(state_out.veh_info) = 24
        /\ \A j \in 1..Len(state_out.veh_info) :
              j > 3 * Min(Live, MAX_NUM_VEHS) =>
                  /\ ~state_out.veh_info[j].nan
                  /\ state_out.veh_info[j].n = 0

C2_Witness ==
    /\ state_out.called /\ lead_obs
    /\ Live = 2
    /\ state_out.veh_info[4].n # 0
    /\ state_out.veh_info[7].n = 0

\* C3: a selected vehicle whose leader is missing ("" or None) has headway and
\* leader-speed entries equal to 1 (the scaled sentinels), not zero, and
\* get_state asks the kernel neither for that leader's speed nor for the
\* vehicle's headway.
C3_MissingLeaderSentinels ==
    state_out.called =>
        \A i \in 1..Len(state_out.ids) :
            LeaderMissing(get_leader(state_out.ids[i])) =>
                /\ RatEq(state_out.veh_info[3 * (i - 1) + 2], One)
                /\ RatEq(state_out.veh_info[3 * (i - 1) + 3], One)
                /\ state_out.veh_info[3 * (i - 1) + 2].n # 0
                /\ state_out.veh_info[3 * (i - 1) + 3].n # 0
                /\ <<"get_headway", state_out.ids[i]>> \notin state_out.queries
                /\ <<"get_speed", EmptyId>> \notin state_out.queries
                /\ <<"get_speed", NoneId>> \notin state_out.queries

C3_Witness ==
    /\ state_out.called
    /\ \E i, j \in 1..Len(state_out.ids) :
          /\ LeaderMissing(get_leader(state_out.ids[i]))
          /\ ~LeaderMissing(get_leader(state_out.ids[j]))
          /\ <<"get_headway", state_out.ids[j]>> \in state_out.queries

\* C8: a warm-up call (rl_actions is None) of _apply_rl_actions makes no
\* apply_acceleration call and reads no action entry, a warm-up call of
\* compute_reward returns {} and reads no speed, and neither changes the
\* kernel's vehicle table.
WarmupApply == ~apply_out.called /\ apply_out'.called /\ apply_out'.rl_actions.none
WarmupReward == ~reward_out.called /\ reward_out'.called /\ reward_out'.rl_actions.none

C8_WarmupIsInert ==
    [][ /\ WarmupApply =>
            /\ apply_out'.calls = <<>>
            /\ apply_out'.reads = {}
            /\ UNCHANGED kernel
        /\ WarmupReward =>
            /\ reward_out'.result.empty
            /\ reward_out'.queries = {}
            /\ UNCHANGED kernel ]_vars

C8_Witness ==
    /\ Live > 1
    /\ reward_out.called /\ reward_out.rl_actions.none
    /\ apply_out.called /\ apply_out.rl_actions.none

\* C9: when an action is applied to the table get_state last read, there is
\* one apply_acceleration call; its i-th vehicle is the one of observation
\* slot i (whose speed is entry 3i), its i-th acceleration is rl_actions[i]
\* unchanged, no vehicle gets two, min(k, N) are applied, and no index at or
\* beyond N is read.
C9_SlotsCorrespond ==
    (apply_out.called /\ ~apply_out.rl_actions.none) =>
        /\ state_out.called
        /\ Len(apply_out.calls) = 1
        /\ LET call == apply_out.calls[1] IN
            /\ call.veh_ids = state_out.ids
            /\ Len(call.veh_ids) = Min(Live, MAX_NUM_VEHS)
            /\ Len(call.acc) = Len(call.veh_ids)
            /\ \A i \in 1..Len(call.veh_ids) :
                  /\ call.acc[i] = apply_out.rl_actions.v[i]
                  /\ RatEq(state_out.veh_info[3 * (i - 1) + 1],
                           Rat(speed[call.veh_ids[i]], SPEED_SCALE))
            /\ \A i, j \in 1..Len(call.veh_ids) :
                  i # j => call.veh_ids[i] # call.veh_ids[j]
        /\ \A r \in apply_out.reads : r - 1 < MAX_NUM_VEHS

C9_Witness ==
    /\ apply_out.called /\ ~apply_out.rl_actions.none
    /\ Live > MAX_NUM_VEHS
    /\ x # Layout(1)
    /\ Len(apply_out.calls[1].acc) = MAX_NUM_VEHS

\* what compute_reward would return on the same table with speeds p
RewardWith(p) ==
    RewardOfSpeeds([i \in 1..Len(get_sorted_rl_ids) |-> p[get_sorted_rl_ids[i]]],
                   target_velocity)

RECURSIVE SumOver(_, _)
SumOver(f, S) ==
    IF S = {} THEN 0
    ELSE LET v == CHOOSE u \in S : TRUE IN f[v] + SumOver(f, S \ {v})

Dev(p) == [v \in AllVehs |-> Abs(p[v] - target_velocity)]
\* the sum of the live vehicles' absolute deviations (the mean, times k)
DevSum(p) == SumOver(Dev(p), Range(rl_ids))

Rewarded == reward_out.called /\ ~reward_out.rl_actions.none

C6_NoVehiclesRewardZero ==
    (Rewarded /\ rl_ids = <<>>) =>
        /\ ~reward_out.result.empty
        /\ ~reward_out.result.value.nan
        /\ reward_out.result.value.n = 0

C6_Witness ==
    /\ Rewarded /\ rl_ids = <<>>
    /\ target_velocity = 2 * SpeedStep
    /\ reward_out.queries = {}

TermOf(v) ==
    (target_velocity - Abs(speed[v] - target_velocity))
        * (target_velocity - Abs(speed[v] - target_velocity))
Terms == [v \in AllVehs |-> TermOf(v)]

\* C10 as stated: the reward is the average of (target - |speed - target|)^2
\* over every live controllable vehicle, divided by target^2.
C10_AverageOverAllLive ==
    (Rewarded /\ Live > 0) =>
        RatEq(reward_out.result.value,
              Rat(SumOver(Terms, Range(rl_ids)),
                  Live * target_velocity * target_velocity))

\* C10 as amended: the average is over the vehicles get_sorted_rl_ids selects
\* (the ones get_state observed on the same table, at most N of them), so a
\* live vehicle outside the selection does not contribute.
C10_AverageOverSelected ==
    (Rewarded /\ Live > 0) =>
        /\ Cardinality(Range(state_out.ids)) = Min(Live, MAX_NUM_VEHS)
        /\ RatEq(reward_out.result.value,
                 Rat(SumOver(Terms, Range(state_out.ids)),
                     Cardinality(Range(state_out.ids))
                         * target_velocity * target_velocity))
        /\ reward_out.queries = {<<"get_speed", v>> : v \in Range(state_out.ids)}

C10_Witness ==
    /\ Rewarded
    /\ Live > MAX_NUM_VEHS
    /\ ~RatEq(reward_out.result.value,
              Rat(SumOver(Terms, Range(rl_ids)),
                  Live * target_velocity * target_velocity))

AllSpeeds == [v \in AllVehs |-> speed[v]]
SpeedSum == SumOver(AllSpeeds, Range(human_ids) \cup Range(rl_ids))
Present == Cardinality(Range(human_ids) \cup Range(rl_ids))

\* C4: the done flag of step is true exactly when the base step reported done
\* or all of: terminate_on_wave, the mean speed of all vehicles strictly below
\* wave_termination_speed, the step counter strictly above
\* wave_termination_horizon, at least one vehicle present.  With horizon 500
\* and floor 10: counter 501, one vehicle at speed 5 terminates; counter 400 or
\* 500 does not unless the base step did.
C4_DoneIffBaseOrWave ==
    step_out.called =>
        /\ step_out.done =
              (\/ step_out.base_done
               \/ /\ terminate_on_wave
                  /\ Present > 0
                  /\ SpeedSum < WAVE_TERMINATION_SPEED * Present
                  /\ time_counter > WAVE_TERMINATION_HORIZON)
        /\ (terminate_on_wave /\ time_counter = 501 /\ Present = 1 /\ SpeedSum = 5)
              => step_out.done
        /\ (time_counter \in {400, 500} /\ ~step_out.base_done) => ~step_out.done
        /\ step_out.base_done => step_out.done

C4_Witness ==
    /\ step_out.called
    /\ terminate_on_wave
    /\ time_counter = 501
    /\ Present = 1
    /\ SpeedSum = 5
    /\ ~step_out.base_done
    /\ step_out.done

====
